---------------------------- MODULE Spec2Model ----------------------------
(***************************************************************************)
(* Model of src/index.js: a WebSocket price relay.  The registry is the    *)
(* Map `subscriptions` (socket -> {id, subscribedFeeds}), the feed state   *)
(* is the object `currentPrices`, the dispatcher is broadcastPriceUpdate   *)
(* and the publisher is the timer of simulatePriceUpdates.                 *)
(*                                                                         *)
(* Node runs every handler to completion on one thread, so each handler is *)
(* one atomic action.  An exception that escapes a handler is an uncaught  *)
(* exception: index.js installs no 'uncaughtException' listener, so the    *)
(* process terminates (crashed = TRUE, no further step).                   *)
(*                                                                         *)
(* The ws library is not part of the repository.  Its send() is modelled   *)
(* as a call that either returns or throws, chosen by the environment for  *)
(* every call; readyState is the library's, changed by the environment.    *)
(* Timestamps (new Date()), the subscriptionId echo and console output     *)
(* carry no behaviour the model needs and are left out of the messages.    *)
(***************************************************************************)
EXTENDS Integers, Sequences, FiniteSets, TLC

(***************************************************************************)
(* Bounds of the model.                                                    *)
(***************************************************************************)
MaxConns == 2      \* connections accepted during a run
MaxPublish == 2    \* timer ticks of simulatePriceUpdates during a run
MaxLen == 2        \* length of a request's array, in Spec
MaxReqLen == 3     \* length of a request's array, in SpecReq

(***************************************************************************)
(* Program constants.  Prices are held in cents: line 40 rounds every     *)
(* published price to two decimals.                                        *)
(***************************************************************************)
SOL_FEED_ID == 6
START_PRICE == 24567
MIN_PRICE == 19789
MAX_PRICE == 20167

(***************************************************************************)
(* JavaScript values that reach the handlers.  A scalar is a record        *)
(* [kind, num, den]: a number num/den, the string whose text is the        *)
(* number num, or undefined / null.                                        *)
(***************************************************************************)
JsNum(n, d) == [kind |-> "number", num |-> n, den |-> d]
JsStr(n) == [kind |-> "string", num |-> n, den |-> 1]
JsUndefined == [kind |-> "undefined", num |-> 0, den |-> 1]
JsNull == [kind |-> "null", num |-> 0, den |-> 1]

\* typeof v
TypeOf(v) == IF v.kind = "null" THEN "object" ELSE v.kind

TruthyZero(v) == v.kind \in {"number", "string"}

\* ToBoolean(v) for a scalar: 0, undefined and null are falsy; the strings
\* of the model are non-empty.
Truthy(v) ==
    CASE v.kind = "number" -> v.num # 0
      [] v.kind = "string" -> TRUE
      [] OTHER -> FALSE

\* An element of a request array: an object that may carry feedId, the
\* value null, or a primitive (a bare number).
ObjEntry(v) == [shape |-> "object", feedId |-> v]
NullEntry == [shape |-> "null", feedId |-> JsUndefined]
PrimEntry == [shape |-> "primitive", feedId |-> JsUndefined]

\* A request field that should hold an array.
JsArray(items) == [kind |-> "array", items |-> items]
JsMissing == [kind |-> "undefined", items |-> <<>>]
JsNotArray == [kind |-> "string", items |-> <<>>]

\* !field || !Array.isArray(field)   (lines 148, 192): an array is truthy,
\* a missing field is falsy, the non-array of the model is truthy.
IsBadListMissingOnly(field) == field.kind = "undefined"

IsBadList(field) == field.kind # "array"

(***************************************************************************)
(* Number.prototype.toString for a price held in cents: the integer part,  *)
(* then the fraction without trailing zeros (200 -> "200", 198.5 ->        *)
(* "198.5", 245.67 -> "245.67").  Strings are sequences of characters.     *)
(***************************************************************************)
Digit(d) == <<"0", "1", "2", "3", "4", "5", "6", "7", "8", "9">>[d + 1]

RECURSIVE NatToDigits(_)
NatToDigits(n) ==
    IF n < 10 THEN <<Digit(n)>>
    ELSE NatToDigits(n \div 10) \o <<Digit(n % 10)>>

NumberToStringTrunc(cents) == NatToDigits(cents \div 100)

NumberToString(cents) ==
    LET f == cents % 100
    IN  NatToDigits(cents \div 100) \o
        (IF f = 0 THEN <<>>
         ELSE <<".", Digit(f \div 10)>> \o
              (IF f % 10 = 0 THEN <<>> ELSE <<Digit(f % 10)>>))


(***************************************************************************)
(* State.                                                                  *)
(***************************************************************************)
VARIABLES
    subscriptions,  \* the Map of line 16, as the sequence of its entries in
                    \* insertion order: [ws, id, subscribedFeeds]
    connectionId,   \* line 17
    currentPrices,  \* line 20: feed key -> [cents, pub]; pub numbers the
                    \* publish that wrote the value (0: the initial value)
    direction,      \* line 28, the closure variable of the timer
    readyState,     \* ws.readyState of every socket ("NONE": not yet accepted)
    reported,       \* per socket: the transport has emitted 'close' or 'error'
    heard,          \* the sockets the most recent broadcast was delivered to
                    \* and that have stayed subscribed to its feed since
    crashed,        \* an exception escaped a handler: the process is gone
    lastOp,         \* the handler that has just run: its input, and the Map
                    \* (pre) as it was when the handler started
    sent            \* the ws.send calls of that handler, in call order:
                    \* [to, msg, ok], ok = the call returned

vars == <<subscriptions, connectionId, currentPrices, direction, readyState,
          reported, heard, crashed, lastOp, sent>>

Handles == 1..MaxConns

Idle == [op |-> "idle"]

(***************************************************************************)
(* The Map `subscriptions`.                                                *)
(***************************************************************************)
RECURSIVE IndexOf(_, _, _)
IndexOf(subs, ws, i) ==
    IF i > Len(subs) THEN 0
    ELSE IF subs[i].ws = ws THEN i
    ELSE IndexOf(subs, ws, i + 1)

\* subscriptions.has(ws)
MapHas(subs, ws) == IndexOf(subs, ws, 1) # 0

\* subscriptions.get(ws), for a key the Map has
MapGet(subs, ws) == subs[IndexOf(subs, ws, 1)]

RemoveAt(subs, i) ==
    [j \in 1..(Len(subs) - 1) |-> IF j < i THEN subs[j] ELSE subs[j + 1]]

\* a removal by position that takes the last entry when ws has none
MapDeleteSplice(subs, ws) ==
    IF MapHas(subs, ws) THEN RemoveAt(subs, IndexOf(subs, ws, 1))
    ELSE SubSeq(subs, 1, Len(subs) - 1)

MapDeleteNoop(subs, ws) == subs

\* subscriptions.delete(ws): removes the entry, or does nothing
MapDelete(subs, ws) ==
    LET i == IndexOf(subs, ws, 1)
    IN  IF i = 0 THEN subs ELSE RemoveAt(subs, i)

\* subscriptions.set(ws, {...}) for a new key: appended in insertion order
MapSet(subs, ws, id) ==
    Append(subs, [ws |-> ws, id |-> id, subscribedFeeds |-> {}])

Registered(subs) == {subs[i].ws : i \in 1..Len(subs)}

FeedsOf(subs, ws) ==
    IF MapHas(subs, ws) THEN MapGet(subs, ws).subscribedFeeds ELSE {}

\* clientData.subscribedFeeds.add(v) / .delete(v) on the entry of ws
SetAdd(subs, ws, v) ==
    [subs EXCEPT ![IndexOf(subs, ws, 1)].subscribedFeeds = @ \cup {v}]

SetRemove(subs, ws, v) ==
    [subs EXCEPT ![IndexOf(subs, ws, 1)].subscribedFeeds = @ \ {v}]

(***************************************************************************)
(* currentPrices[key] for a number key: the object has the one property    *)
(* "6", and a number names it only if it is the number 6.                  *)
(***************************************************************************)
HasPrice(prices, v) ==
    v.kind = "number" /\ v.den = 1 /\ v.num \in DOMAIN prices

\* the price the server started with
PriceOfStart(prices, v) == [cents |-> START_PRICE, pub |-> 0]

PriceOf(prices, v) == prices[v.num]

(***************************************************************************)
(* Outbound messages.                                                      *)
(***************************************************************************)
PriceUpdateMsg(feedId, value) ==
    [type |-> "priceUpdate",
     updates |-> <<[feedId |-> feedId, price |-> NumberToString(value.cents)]>>,
     pub |-> value.pub]

ConnectedMsg(id) == [type |-> "connected", clientId |-> id]
SubscribedMsg(feeds) == [type |-> "subscribed", subscribedFeeds |-> feeds]
UnsubscribedMsg(feeds) == [type |-> "unsubscribed", unsubscribedFeeds |-> feeds]
PongMsg == [type |-> "pong"]
ErrorMsg(text) == [type |-> "error", message |-> text]

(***************************************************************************)
(* A running handler: the Map, the sends made so far, whether an exception *)
(* is propagating, and the handler's local result array.  `throws` is the  *)
(* set of send calls (numbered in call order) the transport makes throw.   *)
(***************************************************************************)
Ctx(subs) == [subs |-> subs, sent |-> <<>>, thrown |-> FALSE, acc |-> <<>>]

WsSendNeverThrows(ctx, ws, msg, throws) ==
    IF ctx.thrown THEN ctx
    ELSE [ctx EXCEPT !.sent = Append(@, [to |-> ws, msg |-> msg, ok |-> TRUE])]

\* ws.send(JSON.stringify(msg)); nothing runs while an exception propagates
WsSend(ctx, ws, msg, throws) ==
    IF ctx.thrown THEN ctx
    ELSE LET k == Len(ctx.sent) + 1
         IN  [ctx EXCEPT !.sent = Append(@, [to |-> ws, msg |-> msg,
                                             ok |-> k \notin throws]),
                         !.thrown = (k \in throws)]


(***************************************************************************)
(* broadcastPriceUpdate, lines 46-67.  Map.prototype.forEach visits the    *)
(* entries in insertion order and an entry deleted during the visit of     *)
(* itself does not disturb the visit of the later ones: with the entries   *)
(* held in a sequence, the entry after a deleted entry i is the new i.     *)
(***************************************************************************)
RECURSIVE BroadcastAbortOnFailure(_, _, _, _, _)
BroadcastAbortOnFailure(ctx, i, feedId, msg, throws) ==
    IF i > Len(ctx.subs) THEN ctx
    ELSE LET e == ctx.subs[i]
         IN  IF readyState[e.ws] = "OPEN" /\ feedId \in e.subscribedFeeds
             THEN LET c == WsSend(ctx, e.ws, msg, throws)
                  IN  IF c.thrown
                      THEN [c EXCEPT !.thrown = FALSE,
                                     !.subs = MapDelete(c.subs, e.ws)]
                      ELSE BroadcastAbortOnFailure(c, i + 1, feedId, msg, throws)
             ELSE BroadcastAbortOnFailure(ctx, i + 1, feedId, msg, throws)

RECURSIVE BroadcastPruneClosed(_, _, _, _, _)
BroadcastPruneClosed(ctx, i, feedId, msg, throws) ==
    IF i > Len(ctx.subs) THEN ctx
    ELSE LET e == ctx.subs[i]
         IN  IF feedId \in e.subscribedFeeds
             THEN IF readyState[e.ws] = "OPEN"
                  THEN LET c == WsSend(ctx, e.ws, msg, throws)
                       IN  IF c.thrown
                           THEN BroadcastPruneClosed(
                                    [c EXCEPT !.thrown = FALSE,
                                              !.subs = MapDelete(c.subs, e.ws)],
                                    i, feedId, msg, throws)
                           ELSE BroadcastPruneClosed(c, i + 1, feedId, msg, throws)
                  ELSE BroadcastPruneClosed(
                           [ctx EXCEPT !.subs = MapDelete(ctx.subs, e.ws)],
                           i, feedId, msg, throws)
             ELSE BroadcastPruneClosed(ctx, i + 1, feedId, msg, throws)

RECURSIVE BroadcastIgnoreFeed(_, _, _, _, _)
BroadcastIgnoreFeed(ctx, i, feedId, msg, throws) ==
    IF i > Len(ctx.subs) THEN ctx
    ELSE LET e == ctx.subs[i]
         IN  IF readyState[e.ws] = "OPEN"
             THEN LET c == WsSend(ctx, e.ws, msg, throws)
                  IN  IF c.thrown
                      THEN BroadcastIgnoreFeed(
                               [c EXCEPT !.thrown = FALSE,
                                         !.subs = MapDelete(c.subs, e.ws)],
                               i, feedId, msg, throws)
                      ELSE BroadcastIgnoreFeed(c, i + 1, feedId, msg, throws)
             ELSE BroadcastIgnoreFeed(ctx, i + 1, feedId, msg, throws)

\* lines 56-66, from entry i on
RECURSIVE BroadcastFrom(_, _, _, _, _)
BroadcastFrom(ctx, i, feedId, msg, throws) ==
    IF i > Len(ctx.subs) THEN ctx
    ELSE LET e == ctx.subs[i]
         IN  IF readyState[e.ws] = "OPEN" /\ feedId \in e.subscribedFeeds
             THEN LET c == WsSend(ctx, e.ws, msg, throws)
                  IN  IF c.thrown
                      THEN BroadcastFrom(
                               [c EXCEPT !.thrown = FALSE,
                                         !.subs = MapDelete(c.subs, e.ws)],
                               i, feedId, msg, throws)
                      ELSE BroadcastFrom(c, i + 1, feedId, msg, throws)
             ELSE BroadcastFrom(ctx, i + 1, feedId, msg, throws)

broadcastPriceUpdate(ctx, feedId, price, throws) ==
    BroadcastFrom(ctx, 1, feedId, PriceUpdateMsg(feedId, price), throws)

(***************************************************************************)
(* handleSubscription, lines 144-185.                                      *)
(***************************************************************************)
RECURSIVE SubscribeLoopSnapshotNew(_, _, _, _, _)
SubscribeLoopSnapshotNew(ctx, ws, items, i, throws) ==
    IF ctx.thrown \/ i > Len(items) THEN ctx
    ELSE LET sub == items[i]
             v == IF sub.shape = "object" THEN sub.feedId ELSE JsUndefined
         IN  IF sub.shape = "null" THEN [ctx EXCEPT !.thrown = TRUE]
             ELSE IF Truthy(v) /\ TypeOf(v) = "number"
             THEN LET c1 == [ctx EXCEPT !.subs = SetAdd(ctx.subs, ws, v),
                                        !.acc = Append(@, v)]
                      c2 == IF HasPrice(currentPrices, v)
                               /\ v \notin FeedsOf(ctx.subs, ws)
                            THEN WsSend(c1, ws,
                                        PriceUpdateMsg(v, PriceOf(currentPrices, v)),
                                        throws)
                            ELSE c1
                  IN  SubscribeLoopSnapshotNew(c2, ws, items, i + 1, throws)
             ELSE SubscribeLoopSnapshotNew(ctx, ws, items, i + 1, throws)

\* the snapshot of the published feed, whatever feed was asked for
RECURSIVE SubscribeLoopSnapshotSol(_, _, _, _, _)
SubscribeLoopSnapshotSol(ctx, ws, items, i, throws) ==
    IF ctx.thrown \/ i > Len(items) THEN ctx
    ELSE LET sub == items[i]
             v == IF sub.shape = "object" THEN sub.feedId ELSE JsUndefined
         IN  IF sub.shape = "null" THEN [ctx EXCEPT !.thrown = TRUE]
             ELSE IF Truthy(v) /\ TypeOf(v) = "number"
             THEN LET c1 == [ctx EXCEPT !.subs = SetAdd(ctx.subs, ws, v),
                                        !.acc = Append(@, v)]
                      c2 == WsSend(c1, ws,
                                   PriceUpdateMsg(JsNum(SOL_FEED_ID, 1),
                                                  currentPrices[SOL_FEED_ID]),
                                   throws)
                  IN  SubscribeLoopSnapshotSol(c2, ws, items, i + 1, throws)
             ELSE SubscribeLoopSnapshotSol(ctx, ws, items, i + 1, throws)

\* sub.feedId: a TypeError for null, undefined for a primitive
RECURSIVE SubscribeLoop(_, _, _, _, _)
SubscribeLoop(ctx, ws, items, i, throws) ==
    IF ctx.thrown \/ i > Len(items) THEN ctx
    ELSE LET sub == items[i]
             v == IF sub.shape = "object" THEN sub.feedId ELSE JsUndefined
         IN  IF sub.shape = "null" THEN [ctx EXCEPT !.thrown = TRUE]
             ELSE IF Truthy(v) /\ TypeOf(v) = "number"
             THEN LET c1 == [ctx EXCEPT !.subs = SetAdd(ctx.subs, ws, v),
                                        !.acc = Append(@, v)]
                      c2 == IF HasPrice(currentPrices, v)
                            THEN WsSend(c1, ws,
                                        PriceUpdateMsg(v, PriceOf(currentPrices, v)),
                                        throws)
                            ELSE c1
                  IN  SubscribeLoop(c2, ws, items, i + 1, throws)
             ELSE SubscribeLoop(ctx, ws, items, i + 1, throws)

handleSubscription(ctx, ws, message, throws) ==
    IF ~MapHas(ctx.subs, ws) THEN ctx
    ELSE IF IsBadList(message.field)
    THEN WsSend(ctx, ws, ErrorMsg("Invalid subscription format"), throws)
    ELSE LET c == SubscribeLoop(ctx, ws, message.field.items, 1, throws)
         IN  WsSend(c, ws, SubscribedMsg(c.acc), throws)

(***************************************************************************)
(* handleUnsubscription, lines 188-215.                                    *)
(***************************************************************************)
RECURSIVE UnsubscribeLoopListAll(_, _, _, _)
UnsubscribeLoopListAll(ctx, ws, items, i) ==
    IF i > Len(items) THEN ctx
    ELSE UnsubscribeLoopListAll(
             [ctx EXCEPT !.subs = SetRemove(ctx.subs, ws, items[i]),
                         !.acc = Append(@, items[i])],
             ws, items, i + 1)

RECURSIVE UnsubscribeLoop(_, _, _, _)
UnsubscribeLoop(ctx, ws, items, i) ==
    IF i > Len(items) THEN ctx
    ELSE IF items[i] \in MapGet(ctx.subs, ws).subscribedFeeds
    THEN UnsubscribeLoop([ctx EXCEPT !.subs = SetRemove(ctx.subs, ws, items[i]),
                                     !.acc = Append(@, items[i])],
                         ws, items, i + 1)
    ELSE UnsubscribeLoop(ctx, ws, items, i + 1)

handleUnsubscription(ctx, ws, message, throws) ==
    IF ~MapHas(ctx.subs, ws) THEN ctx
    ELSE IF IsBadList(message.field)
    THEN WsSend(ctx, ws, ErrorMsg("Invalid unsubscription format"), throws)
    ELSE LET c == UnsubscribeLoop(ctx, ws, message.field.items, 1)
         IN  WsSend(c, ws, UnsubscribedMsg(c.acc), throws)

(***************************************************************************)
(* handleClientMessage, lines 118-141.  message.type of the JSON value     *)
(* null is a TypeError; it is evaluated after the registry lookup.         *)
(***************************************************************************)
handleClientMessageAnswerUnknown(ctx, ws, message, throws) ==
    IF ~MapHas(ctx.subs, ws)
    THEN WsSend(ctx, ws, ErrorMsg("Unknown connection"), throws)
    ELSE CASE message.type = "null" -> [ctx EXCEPT !.thrown = TRUE]
           [] message.type = "subscribe" ->
                  handleSubscription(ctx, ws, message, throws)
           [] message.type = "unsubscribe" ->
                  handleUnsubscription(ctx, ws, message, throws)
           [] message.type = "ping" -> WsSend(ctx, ws, PongMsg, throws)
           [] OTHER -> WsSend(ctx, ws, ErrorMsg("Unknown message type"), throws)

handleClientMessageRevive(ctx, ws, message, throws) ==
    LET c == IF MapHas(ctx.subs, ws) THEN ctx
             ELSE [ctx EXCEPT !.subs = MapSet(@, ws, ws)]
    IN  CASE message.type = "null" -> [c EXCEPT !.thrown = TRUE]
          [] message.type = "subscribe" -> handleSubscription(c, ws, message, throws)
          [] message.type = "unsubscribe" ->
                 handleUnsubscription(c, ws, message, throws)
          [] message.type = "ping" -> WsSend(c, ws, PongMsg, throws)
          [] OTHER -> WsSend(c, ws, ErrorMsg("Unknown message type"), throws)

handleClientMessage(ctx, ws, message, throws) ==
    IF ~MapHas(ctx.subs, ws) THEN ctx
    ELSE CASE message.type = "null" -> [ctx EXCEPT !.thrown = TRUE]
           [] message.type = "subscribe" ->
                  handleSubscription(ctx, ws, message, throws)
           [] message.type = "unsubscribe" ->
                  handleUnsubscription(ctx, ws, message, throws)
           [] message.type = "ping" -> WsSend(ctx, ws, PongMsg, throws)
           [] OTHER -> WsSend(ctx, ws, ErrorMsg("Unknown message type"), throws)

(***************************************************************************)
(* The 'message' listener, lines 91-102: JSON.parse, handleClientMessage,  *)
(* and the catch that answers 'Invalid JSON format' to whatever was thrown *)
(* in either.  An exception thrown by the send in the catch escapes.       *)
(***************************************************************************)
onMessage(ctx, ws, data, throws) ==
    LET c == IF data.type = "badjson" THEN [ctx EXCEPT !.thrown = TRUE]
             ELSE handleClientMessage(ctx, ws, data, throws)
    IN  IF c.thrown
        THEN WsSend([c EXCEPT !.thrown = FALSE], ws,
                    ErrorMsg("Invalid JSON format"), throws)
        ELSE c


(***************************************************************************)
(* Inputs.                                                                 *)
(***************************************************************************)
SeqsUpTo(S, n) == UNION {[1..k -> S] : k \in 0..n}

\* feedId values a client can put in a request: the published feed, a feed
\* nobody publishes, a negative number, a fraction, zero, a string, nothing
Feed6 == JsNum(SOL_FEED_ID, 1)
Feed99 == JsNum(99, 1)
FeedNeg == JsNum(-1, 1)
FeedFrac == JsNum(3, 2)

AllEntries ==
    {ObjEntry(Feed6), ObjEntry(Feed99), ObjEntry(FeedNeg), ObjEntry(FeedFrac),
     ObjEntry(JsNum(0, 1)), ObjEntry(JsStr(SOL_FEED_ID)), ObjEntry(JsUndefined),
     NullEntry, PrimEntry}
AllFeedIds == {Feed6, Feed99, FeedNeg, FeedFrac, JsStr(SOL_FEED_ID), JsNull}

\* Spec: the published feed only
SysEntries == {ObjEntry(Feed6)}
SysFeedIds == {Feed6}

\* SpecFeeds: the published feed, an unpublished feed, an element that throws
TwoEntries == {ObjEntry(Feed6), ObjEntry(Feed99), NullEntry}
TwoFeedIds == {Feed6, Feed99}

\* what a client frame parses to; "badjson" does not parse, "null" is the
\* JSON value null, "other" carries an unknown type
Frame(type, field) == [type |-> type, field |-> field]

OtherTypes == {"badjson", "null", "ping", "other"}
BadLists == {JsMissing, JsNotArray}

Frames(entries, feedIds, n, types, bad) ==
    {Frame(t, JsMissing) : t \in types}
      \cup {Frame("subscribe", f) :
              f \in bad \cup {JsArray(l) : l \in SeqsUpTo(entries, n)}}
      \cup {Frame("unsubscribe", f) :
              f \in bad \cup {JsArray(l) : l \in SeqsUpTo(feedIds, n)}}

\* the send calls the 'message' listener can make before its catch: one
\* per priced element of a subscribe request and the confirmation, one
\* otherwise
MaxSends(data) ==
    IF data.type = "subscribe" /\ data.field.kind = "array"
    THEN Cardinality({i \in 1..Len(data.field.items) :
                        /\ data.field.items[i].shape = "object"
                        /\ HasPrice(currentPrices, data.field.items[i].feedId)}) + 1
    ELSE 1

\* which send calls throw, for a handler that makes at most n calls: none,
\* one, or one and the call of the catch that follows it
ThrowChoices(n) ==
    {{}} \cup {{k} : k \in 1..n} \cup {{k, k + 1} : k \in 1..n}

\* the cents a timer tick moves the price by: line 32 draws a step in
\* [0.01, 0.10), line 40 rounds the result to cents
StepCents == {7}

(***************************************************************************)
(* Initial state: lines 16-22 and 28.                                      *)
(***************************************************************************)
Init ==
    /\ subscriptions = <<>>
    /\ connectionId = 0
    /\ currentPrices = [k \in {SOL_FEED_ID} |-> [cents |-> START_PRICE, pub |-> 0]]
    /\ direction = 1
    /\ readyState = [h \in Handles |-> "NONE"]
    /\ reported = [h \in Handles |-> FALSE]
    /\ heard = {}
    /\ crashed = FALSE
    /\ lastOp = Idle
    /\ sent = <<>>

Ready == ~crashed /\ lastOp = Idle

\* heard, kept for the sockets still subscribed to the published feed
StillSubscribed(hs, subs) == {h \in hs : Feed6 \in FeedsOf(subs, h)}

\* the id taken from the size of the Map
OnConnectionSizeId(throws) ==
    /\ Ready
    /\ LET ws == connectionId + 1
           clientId == Len(subscriptions) + 1
           c == WsSend(Ctx(MapSet(subscriptions, ws, clientId)), ws,
                       ConnectedMsg(clientId), throws)
       IN  /\ connectionId' = connectionId + 1
           /\ subscriptions' = c.subs
           /\ readyState' = [readyState EXCEPT ![ws] = "OPEN"]
           /\ sent' = c.sent
           /\ crashed' = c.thrown
           /\ lastOp' = [op |-> "connection", ws |-> ws, pre |-> subscriptions]
    /\ UNCHANGED <<currentPrices, direction, reported, heard>>

(***************************************************************************)
(* wss.on('connection'), lines 70-115.  The entry is stored (line 77)      *)
(* before the acknowledgment is sent (line 84), and the listeners are      *)
(* attached after it: a throwing send escapes the handler.                 *)
(***************************************************************************)
OnConnection(throws) ==
    /\ Ready
    /\ LET ws == connectionId + 1
           clientId == connectionId + 1
           c == WsSend(Ctx(MapSet(subscriptions, ws, clientId)), ws,
                       ConnectedMsg(clientId), throws)
       IN  /\ connectionId' = clientId
           /\ subscriptions' = c.subs
           /\ readyState' = [readyState EXCEPT ![ws] = "OPEN"]
           /\ sent' = c.sent
           /\ crashed' = c.thrown
           /\ lastOp' = [op |-> "connection", ws |-> ws, pre |-> subscriptions]
    /\ UNCHANGED <<currentPrices, direction, reported, heard>>

(***************************************************************************)
(* The transport starts closing a socket (the peer's close frame, a socket *)
(* error): readyState leaves OPEN before any event reaches the listeners.  *)
(***************************************************************************)
TransportClosing(ws) ==
    /\ Ready
    /\ readyState[ws] = "OPEN"
    /\ readyState' = [readyState EXCEPT ![ws] = "CLOSING"]
    /\ UNCHANGED <<subscriptions, connectionId, currentPrices, direction,
                   reported, heard, crashed, lastOp, sent>>

\* ws.on('close'), lines 105-108
OnClose(ws) ==
    /\ Ready
    /\ readyState[ws] \in {"OPEN", "CLOSING"}
    /\ readyState' = [readyState EXCEPT ![ws] = "CLOSED"]
    /\ reported' = [reported EXCEPT ![ws] = TRUE]
    /\ subscriptions' = MapDelete(subscriptions, ws)
    /\ heard' = StillSubscribed(heard, subscriptions')
    /\ lastOp' = [op |-> "close", ws |-> ws, pre |-> subscriptions]
    /\ sent' = <<>>
    /\ UNCHANGED <<connectionId, currentPrices, direction, crashed>>

\* ws.on('error'), lines 111-114
OnError(ws) ==
    /\ Ready
    /\ readyState[ws] # "NONE"
    /\ readyState' = [readyState EXCEPT ![ws] = IF @ = "OPEN" THEN "CLOSING" ELSE @]
    /\ reported' = [reported EXCEPT ![ws] = TRUE]
    /\ subscriptions' = MapDelete(subscriptions, ws)
    /\ heard' = StillSubscribed(heard, subscriptions')
    /\ lastOp' = [op |-> "error", ws |-> ws, pre |-> subscriptions]
    /\ sent' = <<>>
    /\ UNCHANGED <<connectionId, currentPrices, direction, crashed>>

\* ws.on('message'), lines 91-102
OnMessage(ws, data, throws) ==
    /\ Ready
    /\ readyState[ws] \in {"OPEN", "CLOSING"}
    /\ LET c == onMessage(Ctx(subscriptions), ws, data, throws)
       IN  /\ subscriptions' = c.subs
           /\ sent' = c.sent
           /\ crashed' = c.thrown
           /\ heard' = StillSubscribed(heard, c.subs)
    /\ lastOp' = [op |-> "message", ws |-> ws, data |-> data, pre |-> subscriptions]
    /\ UNCHANGED <<connectionId, currentPrices, direction, readyState, reported>>

(***************************************************************************)
(* The timer callback of simulatePriceUpdates, lines 29-42: the new price  *)
(* is stored (line 40) and then broadcast (line 41).                       *)
(***************************************************************************)
Clamp(x) == IF x < MIN_PRICE THEN MIN_PRICE ELSE IF x > MAX_PRICE THEN MAX_PRICE ELSE x

NextDirection(cur, dir, flip) ==
    LET d1 == IF cur >= MAX_PRICE THEN -1 ELSE dir
        d2 == IF cur <= MIN_PRICE THEN 1 ELSE d1
    IN  IF flip THEN -d2 ELSE d2

\* lines 40-41: the value the tick hands to broadcastPriceUpdate
PublishedStale(prices, value) == prices[SOL_FEED_ID]

Published(prices, value) == [prices EXCEPT ![SOL_FEED_ID] = value][SOL_FEED_ID]

Tick(step, flip, throws) ==
    /\ Ready
    /\ LET cur == currentPrices[SOL_FEED_ID].cents
           d == NextDirection(cur, direction, flip)
           value == [cents |-> Clamp(cur + d * step),
                     pub |-> currentPrices[SOL_FEED_ID].pub + 1]
           c == broadcastPriceUpdate(Ctx(subscriptions), Feed6,
                                     Published(currentPrices, value), throws)
       IN  /\ direction' = d
           /\ currentPrices' = [currentPrices EXCEPT ![SOL_FEED_ID] = value]
           /\ subscriptions' = c.subs
           /\ sent' = c.sent
           /\ lastOp' = [op |-> "publish", feedId |-> Feed6, value |-> value,
                         pre |-> subscriptions,
                         prePub |-> currentPrices[SOL_FEED_ID].pub,
                         preHeard |-> heard]
           /\ heard' = StillSubscribed({h \in Handles :
                                           \E i \in 1..Len(c.sent) :
                                               c.sent[i].to = h /\ c.sent[i].ok},
                                        c.subs)
    /\ UNCHANGED <<connectionId, readyState, reported, crashed>>

\* the handler has returned: the event loop is idle again
Return ==
    /\ ~crashed
    /\ lastOp # Idle
    /\ lastOp' = Idle
    /\ sent' = <<>>
    /\ UNCHANGED <<subscriptions, connectionId, currentPrices, direction,
                   readyState, reported, heard, crashed>>

\* the sends of a broadcast that can throw: one per entry at most
BroadcastThrows == SUBSET (1..Len(subscriptions))

(***************************************************************************)
(* Specifications, each from Init.                                         *)
(*   Spec      several connections and the publisher; the frames are       *)
(*             well-formed requests naming the published feed, and         *)
(*             unparseable frames.                                         *)
(*   SpecFeeds one connection and the publisher; requests name the         *)
(*             published feed, an unpublished feed, or hold a null.        *)
(*   SpecReq   one connection, no publisher; requests hold every kind of   *)
(*             element and are longer.                                     *)
(* Ready is stated before the inputs are drawn: a handler starts only when *)
(* the event loop is idle.                                                 *)
(***************************************************************************)
SysFrames == Frames(SysEntries, SysFeedIds, MaxLen, {"badjson"}, {})
TwoFrames == Frames(TwoEntries, TwoFeedIds, MaxLen, OtherTypes, BadLists)
ReqFrames == Frames(AllEntries, AllFeedIds, MaxReqLen, OtherTypes, BadLists)

Next ==
    \/ Ready /\ connectionId < MaxConns /\ \E t \in ThrowChoices(1) : OnConnection(t)
    \/ Ready /\ \E ws \in Handles : TransportClosing(ws)
    \/ Ready /\ \E ws \in Handles : OnClose(ws)
    \/ Ready /\ \E ws \in Handles : OnError(ws)
    \/ Ready /\ \E ws \in Handles, data \in SysFrames :
           \E t \in ThrowChoices(MaxSends(data)) : OnMessage(ws, data, t)
    \/ Ready /\ currentPrices[SOL_FEED_ID].pub < MaxPublish
             /\ \E step \in StepCents, flip \in BOOLEAN, t \in BroadcastThrows :
                    Tick(step, flip, t)
    \/ Return

Spec == Init /\ [][Next]_vars

NextFeeds ==
    \/ Ready /\ connectionId < 1 /\ \E t \in ThrowChoices(1) : OnConnection(t)
    \/ Ready /\ \E ws \in {1} : TransportClosing(ws)
    \/ Ready /\ \E ws \in {1} : OnClose(ws)
    \/ Ready /\ \E ws \in {1} : OnError(ws)
    \/ Ready /\ \E ws \in {1}, data \in TwoFrames :
           \E t \in ThrowChoices(MaxSends(data)) : OnMessage(ws, data, t)
    \/ Ready /\ currentPrices[SOL_FEED_ID].pub < MaxPublish
             /\ \E step \in StepCents, flip \in BOOLEAN, t \in BroadcastThrows :
                    Tick(step, flip, t)
    \/ Return

SpecFeeds == Init /\ [][NextFeeds]_vars

NextReq ==
    \/ Ready /\ connectionId < 1 /\ \E t \in ThrowChoices(1) : OnConnection(t)
    \/ Ready /\ \E ws \in {1} : TransportClosing(ws)
    \/ Ready /\ \E ws \in {1} : OnClose(ws)
    \/ Ready /\ \E ws \in {1} : OnError(ws)
    \/ Ready /\ \E ws \in {1}, data \in ReqFrames :
           \E t \in ThrowChoices(MaxSends(data)) : OnMessage(ws, data, t)
    \/ Return

SpecReq == Init /\ [][NextReq]_vars


(***************************************************************************)
(* Vocabulary of the properties.  A property about a handler is stated on  *)
(* the state the handler leaves: lastOp names it and holds the Map it      *)
(* started from, sent holds its send calls.                                *)
(***************************************************************************)
Handled(op) == lastOp.op = op

SendsTo(h) == {i \in 1..Len(sent) : sent[i].to = h}

\* the connections in the Map, subscribed to the feed, when a publish starts
Subscribers ==
    {h \in Handles : MapHas(lastOp.pre, h) /\ lastOp.feedId \in FeedsOf(lastOp.pre, h)}

\* those of them whose socket is open
OpenSubscribers == {h \in Subscribers : readyState[h] = "OPEN"}

\* a decimal string read back as cents, and the shape toString gives it
DigitValue(c) == CHOOSE d \in 0..9 : Digit(d) = c

RECURSIVE DigitsValue(_)
DigitsValue(str) ==
    IF str = <<>> THEN 0
    ELSE 10 * DigitsValue(SubSeq(str, 1, Len(str) - 1)) + DigitValue(str[Len(str)])

DotAt(str) ==
    IF \E i \in 1..Len(str) : str[i] = "."
    THEN CHOOSE i \in 1..Len(str) : str[i] = "."
    ELSE 0

DecimalCents(str) ==
    LET d == DotAt(str)
        frac == SubSeq(str, d + 1, Len(str))
    IN  IF d = 0 THEN 100 * DigitsValue(str)
        ELSE 100 * DigitsValue(SubSeq(str, 1, d - 1))
               + (IF Len(frac) = 1 THEN 10 * DigitValue(frac[1]) ELSE DigitsValue(frac))

ShortestDecimal(str) ==
    LET d == DotAt(str)
    IN  d = 0 \/ (Len(str) - d \in {1, 2} /\ str[Len(str)] # "0" /\ d > 1)

\* msg is the single-feed priceUpdate of feed f carrying the price cents
IsUpdateOf(msg, f, cents) ==
    /\ msg.type = "priceUpdate"
    /\ Len(msg.updates) = 1
    /\ msg.updates[1].feedId = f
    /\ DecimalCents(msg.updates[1].price) = cents
    /\ ShortestDecimal(msg.updates[1].price)

(***************************************************************************)
(* C1, as claimed: every publish delivers exactly one priceUpdate to every *)
(* connection subscribed to the feed at lookup time.  It fails: a          *)
(* subscribed connection whose socket is not open is sent nothing, and one *)
(* whose send throws is delivered nothing.                                 *)
(***************************************************************************)
C1_OneDeliveredPerSubscriber ==
    Handled("publish") =>
        \A h \in Subscribers :
            Cardinality({i \in SendsTo(h) :
                           /\ sent[i].ok
                           /\ IsUpdateOf(sent[i].msg, lastOp.feedId,
                                         lastOp.value.cents)}) = 1

(***************************************************************************)
(* C1, amended: every publish makes exactly one send call for every        *)
(* connection that is subscribed to the feed and open at lookup time, and  *)
(* none for any other; every message is the single-feed priceUpdate of     *)
(* that feed whose price is the decimal string of the published value.     *)
(***************************************************************************)
C1_OneSendPerOpenSubscriber ==
    Handled("publish") =>
        /\ \A h \in Handles :
               Cardinality(SendsTo(h)) = IF h \in OpenSubscribers THEN 1 ELSE 0
        /\ \A i \in 1..Len(sent) :
               IsUpdateOf(sent[i].msg, lastOp.feedId, lastOp.value.cents)

\* C1's case: the second of two publishes, each delivered to two subscribers
C1_Witness ==
    /\ Handled("publish")
    /\ lastOp.value.pub = 2
    /\ Len(sent) = 2
    /\ \A i \in 1..2 : sent[i].ok
    /\ lastOp.preHeard = {1, 2}

(***************************************************************************)
(* C2: within one publish a throwing send or a closed connection does not  *)
(* abort the delivery: the send calls go, in Map order, to every connection*)
(* that is subscribed and open, wherever the failing ones stand, and the   *)
(* Map afterwards is the Map before without the connections whose send     *)
(* threw.                                                                  *)
(***************************************************************************)
C2_FailureDoesNotAbort ==
    Handled("publish") =>
        LET Open(e) == e.ws \in OpenSubscribers
            Kept(e) == \A i \in SendsTo(e.ws) : sent[i].ok
            chosen == SelectSeq(lastOp.pre, Open)
        IN  /\ Len(sent) = Len(chosen)
            /\ \A i \in 1..Len(sent) : sent[i].to = chosen[i].ws
            /\ subscriptions = SelectSeq(lastOp.pre, Kept)

\* C2's case: the first subscriber's send throws, the one after it is served
C2_Witness ==
    /\ Handled("publish")
    /\ Len(sent) = 2
    /\ ~sent[1].ok
    /\ sent[2].ok
    /\ ~MapHas(subscriptions, sent[1].to)

(***************************************************************************)
(* C3: a connection whose send threw during a publish is out of the Map    *)
(* when the publish ends; a connection that has left the Map is never in   *)
(* it again, whatever handler runs; and every publish sends only to        *)
(* connections in the Map when it starts, and still reaches each of them   *)
(* that is subscribed and open.                                            *)
(***************************************************************************)
C3_Step ==
    /\ \A h \in Handles :
           (readyState[h] # "NONE" /\ ~MapHas(subscriptions, h))
               => ~MapHas(subscriptions', h)
    /\ (lastOp = Idle /\ lastOp'.op = "publish") =>
           /\ \A i \in 1..Len(sent') :
                  /\ MapHas(subscriptions, sent'[i].to)
                  /\ ~sent'[i].ok => ~MapHas(subscriptions', sent'[i].to)
           /\ \A h \in Handles :
                  (/\ MapHas(subscriptions, h)
                   /\ Feed6 \in FeedsOf(subscriptions, h)
                   /\ readyState[h] = "OPEN")
                      => \E i \in 1..Len(sent') : sent'[i].to = h

C3_RemovedStaysRemoved == [][C3_Step]_vars

\* C3's case: a publish after connection h was pruned by a throwing send
\* (its socket open, no close or error reported), delivering to the other
C3_Witness ==
    /\ Handled("publish")
    /\ \E h \in Handles :
           /\ readyState[h] = "OPEN"
           /\ ~reported[h]
           /\ ~MapHas(lastOp.pre, h)
           /\ SendsTo(h) = {}
           /\ \E i \in 1..Len(sent) : sent[i].to # h /\ sent[i].ok

C5_ReportedHasNoEntry ==
    /\ \A h \in Handles : reported[h] => ~MapHas(subscriptions, h)
    /\ (crashed /\ Handled("connection")) => ~reported[lastOp.ws]

\* C5's case: the 'close' listener ran for a connection with subscriptions
C5_Witness ==
    /\ Handled("close")
    /\ MapHas(lastOp.pre, lastOp.ws)
    /\ FeedsOf(lastOp.pre, lastOp.ws) # {}
    /\ reported[lastOp.ws]

(***************************************************************************)
(* C6, as claimed: a publish selects every connection in the Map whose     *)
(* feed set holds the feed.  It fails: line 57 also asks for an open       *)
(* socket, and a subscribed connection that is closing is not selected.    *)
(***************************************************************************)
C6_SelectsEverySubscriber ==
    Handled("publish") => {sent[i].to : i \in 1..Len(sent)} = Subscribers

(***************************************************************************)
(* C6, amended: a publish selects exactly the connections that are in the  *)
(* Map, hold the feed in their feed set and are open.  A feed confirmed by *)
(* 'subscribed' is in the feed set; a feed leaves a connection's feed set  *)
(* only by that connection's unsubscribe naming it, by its close or error, *)
(* or by its failed send in a publish; and only the connection handler     *)
(* puts a connection into the Map.                                         *)
(***************************************************************************)
C6_SelectsOpenSubscribers ==
    /\ Handled("publish") => {sent[i].to : i \in 1..Len(sent)} = OpenSubscribers
    /\ Handled("message") =>
           \A j \in 1..Len(sent) :
               sent[j].msg.type = "subscribed" =>
                   \A k \in 1..Len(sent[j].msg.subscribedFeeds) :
                       sent[j].msg.subscribedFeeds[k]
                           \in FeedsOf(subscriptions, lastOp.ws)
    /\ lastOp # Idle =>
           \A h \in Handles :
               /\ \A f \in FeedsOf(lastOp.pre, h) \ FeedsOf(subscriptions, h) :
                      \/ /\ Handled("message")
                         /\ lastOp.ws = h
                         /\ lastOp.data.type = "unsubscribe"
                         /\ \E k \in 1..Len(lastOp.data.field.items) :
                                lastOp.data.field.items[k] = f
                      \/ lastOp.op \in {"close", "error"} /\ lastOp.ws = h
                      \/ Handled("publish") /\ \E i \in SendsTo(h) : ~sent[i].ok
               /\ (MapHas(subscriptions, h) /\ ~MapHas(lastOp.pre, h)) =>
                      (Handled("connection") /\ lastOp.ws = h)

\* C6's case: two open connections in the Map, one of them subscribed
C6_Witness ==
    /\ Handled("publish")
    /\ Len(lastOp.pre) = 2
    /\ \A h \in {1, 2} : readyState[h] = "OPEN"
    /\ Cardinality(Subscribers) = 1
    /\ Len(sent) = 1
    /\ sent[1].ok

(***************************************************************************)
(* C7: the messages of a publish carry that publish and no earlier one:    *)
(* the n-th publish of the feed sends, to each connection, at most one     *)
(* message, and it is the message of publish n, n being one more than the  *)
(* publish whose messages were sent before.                                *)
(***************************************************************************)
C7_PublishOrder ==
    Handled("publish") =>
        /\ lastOp.value.pub = lastOp.prePub + 1
        /\ currentPrices[SOL_FEED_ID] = lastOp.value
        /\ \A i \in 1..Len(sent) : sent[i].msg.pub = lastOp.value.pub
        /\ \A h \in Handles : Cardinality(SendsTo(h)) <= 1

\* C7's case: a connection delivered publish p1 is now delivered publish p2
C7_Witness ==
    /\ Handled("publish")
    /\ lastOp.prePub = 1
    /\ \E h \in lastOp.preHeard :
           \E i \in SendsTo(h) : sent[i].ok /\ sent[i].msg.pub = 2

(***************************************************************************)
(* C8: in the answer to a subscribe request the 'subscribed' confirmation  *)
(* is preceded by exactly the snapshots of the accepted feeds that have a  *)
(* price, in the order of acceptance, each a delivered single-feed         *)
(* priceUpdate to the requester with the current price; and no priceUpdate *)
(* of the answer is for a feed without a price.                            *)
(***************************************************************************)
C8_SnapshotsBeforeConfirmation ==
    (Handled("message") /\ lastOp.data.type = "subscribe") =>
        LET Priced(v) == HasPrice(currentPrices, v)
        IN  /\ \A i \in 1..Len(sent) :
                   sent[i].msg.type = "priceUpdate" =>
                       Priced(sent[i].msg.updates[1].feedId)
            /\ \A j \in 1..Len(sent) :
                   sent[j].msg.type = "subscribed" =>
                       LET due == SelectSeq(sent[j].msg.subscribedFeeds, Priced)
                       IN  /\ j = Len(due) + 1
                           /\ \A i \in 1..(j - 1) :
                                  /\ sent[i].to = lastOp.ws
                                  /\ sent[i].ok
                                  /\ IsUpdateOf(sent[i].msg, due[i],
                                                currentPrices[due[i].num].cents)

\* C8's case: a request for a priced and an unpriced feed, after a publish
C8_Witness ==
    /\ Handled("message")
    /\ currentPrices[SOL_FEED_ID].pub >= 1
    /\ Len(sent) = 2
    /\ sent[1].msg.type = "priceUpdate" /\ sent[1].ok
    /\ sent[2].msg = SubscribedMsg(<<Feed6, Feed99>>) /\ sent[2].ok

(***************************************************************************)
(* What a subscribe request over a list adds and confirms, for a notion of *)
(* valid feedId: every member of every feed set is valid; the request adds *)
(* only valid feedIds of its elements; its confirmation lists the valid    *)
(* feedIds of its elements in order, all of them then in the feed set.     *)
(***************************************************************************)
AcceptsExactly(Valid(_)) ==
    /\ \A n \in 1..Len(subscriptions) :
           \A v \in subscriptions[n].subscribedFeeds : Valid(v)
    /\ (/\ Handled("message")
        /\ lastOp.data.type = "subscribe"
        /\ lastOp.data.field.kind = "array"
        /\ MapHas(lastOp.pre, lastOp.ws)) =>
           LET Wanted(e) == e.shape = "object" /\ Valid(e.feedId)
               w == SelectSeq(lastOp.data.field.items, Wanted)
               ids == [k \in 1..Len(w) |-> w[k].feedId]
               added == FeedsOf(subscriptions, lastOp.ws)
                            \ FeedsOf(lastOp.pre, lastOp.ws)
           IN  /\ added \subseteq {ids[k] : k \in 1..Len(ids)}
               /\ \A j \in 1..Len(sent) :
                      sent[j].msg.type = "subscribed" =>
                          /\ sent[j].msg.subscribedFeeds = ids
                          /\ \A k \in 1..Len(ids) :
                                 ids[k] \in FeedsOf(subscriptions, lastOp.ws)

IsPositiveInteger(v) == v.kind = "number" /\ v.den = 1 /\ v.num > 0

IsNonZeroNumber(v) == v.kind = "number" /\ v.num # 0

(***************************************************************************)
(* C9, as claimed: subscribe adds and confirms exactly the feedIds that    *)
(* are positive integers.  It fails: line 159 takes every number that is   *)
(* not falsy, negative numbers and fractions among them.                   *)
(***************************************************************************)
C9_AcceptsPositiveIntegers == AcceptsExactly(IsPositiveInteger)

(***************************************************************************)
(* C9, amended: subscribe adds and confirms exactly the feedIds that are   *)
(* numbers other than zero; zero, strings and missing feedIds are never    *)
(* added or confirmed.                                                     *)
(***************************************************************************)
C9_AcceptsNonZeroNumbers == AcceptsExactly(IsNonZeroNumber)

\* C9's case: a confirmed request holding a zero and a negative feedId
C9_Witness ==
    /\ Handled("message")
    /\ lastOp.data.type = "subscribe"
    /\ lastOp.data.field.kind = "array"
    /\ \E k \in 1..Len(lastOp.data.field.items) :
           lastOp.data.field.items[k] = ObjEntry(JsNum(0, 1))
    /\ \E j \in 1..Len(sent) :
           /\ sent[j].ok
           /\ sent[j].msg.type = "subscribed"
           /\ sent[j].msg.subscribedFeeds = <<FeedNeg>>
    /\ FeedNeg \in FeedsOf(subscriptions, lastOp.ws)

(***************************************************************************)
(* C10: a subscribe request over a list, from a connection in the Map and  *)
(* with no send throwing, is answered by the 'subscribed' confirmation     *)
(* listing the feedIds line 159 takes, all of them then in the feed set,   *)
(* and by no error message, whatever other elements the list holds.  It    *)
(* fails for a list holding null: sub.feedId throws on it.                 *)
(***************************************************************************)
C10_InvalidEntriesSkipped ==
    (/\ Handled("message")
     /\ lastOp.data.type = "subscribe"
     /\ lastOp.data.field.kind = "array"
     /\ MapHas(lastOp.pre, lastOp.ws)
     /\ \A i \in 1..Len(sent) : sent[i].ok) =>
        LET Wanted(e) == e.shape = "object" /\ IsNonZeroNumber(e.feedId)
            w == SelectSeq(lastOp.data.field.items, Wanted)
            ids == [k \in 1..Len(w) |-> w[k].feedId]
        IN  /\ \E j \in 1..Len(sent) : sent[j].msg = SubscribedMsg(ids)
            /\ \A i \in 1..Len(sent) : sent[i].msg.type # "error"
            /\ \A k \in 1..Len(ids) :
                   ids[k] \in FeedsOf(subscriptions, lastOp.ws)

(***************************************************************************)
(* Vocabulary of the requests.                                             *)
(***************************************************************************)
\* the 'message' listener ran a request of this type over a list, for a
\* connection in the Map
ListRequest(type) ==
    /\ Handled("message")
    /\ lastOp.data.type = type
    /\ lastOp.data.field.kind = "array"
    /\ MapHas(lastOp.pre, lastOp.ws)

Elements(seq) == {seq[k] : k \in 1..Len(seq)}

FirstIndex(seq, x) == CHOOSE k \in 1..Len(seq) : seq[k] = x /\ \A n \in 1..(k - 1) : seq[n] # x

(***************************************************************************)
(* C11: an unsubscribe request over a list leaves the feed set without the *)
(* listed ids, and its one 'unsubscribed' response lists the ids that were *)
(* in the set before and are listed, each once, in the order of their      *)
(* first listing.                                                          *)
(***************************************************************************)
C11_UnsubscribeListsRemoved ==
    ListRequest("unsubscribe") =>
        LET items == lastOp.data.field.items
            before == FeedsOf(lastOp.pre, lastOp.ws)
        IN  /\ FeedsOf(subscriptions, lastOp.ws) = before \ Elements(items)
            /\ Len(sent) >= 1
            /\ sent[1].to = lastOp.ws
            /\ sent[1].msg.type = "unsubscribed"
            /\ LET r == sent[1].msg.unsubscribedFeeds
               IN  /\ Elements(r) = before \cap Elements(items)
                   /\ \A a, b \in 1..Len(r) :
                          a < b => FirstIndex(items, r[a]) < FirstIndex(items, r[b])
            /\ \A j \in 2..Len(sent) : sent[j].msg.type # "unsubscribed"

\* C11's case: subscribed to 6 only, unsubscribing [6, 99, 6] answers [6]
C11_Witness ==
    /\ ListRequest("unsubscribe")
    /\ FeedsOf(lastOp.pre, lastOp.ws) = {Feed6}
    /\ lastOp.data.field.items = <<Feed6, Feed99, Feed6>>
    /\ sent = <<[to |-> lastOp.ws, msg |-> UnsubscribedMsg(<<Feed6>>), ok |-> TRUE]>>
    /\ FeedsOf(subscriptions, lastOp.ws) = {}

\* the feed set S after a request, by set algebra: a subscribe over a list
\* adds the feedIds line 159 takes, an unsubscribe over a list removes the
\* listed ids, anything else leaves S
Applied(data, S) ==
    IF data.type = "subscribe" /\ data.field.kind = "array"
    THEN S \cup {e.feedId : e \in {x \in Elements(data.field.items) :
                                      x.shape = "object" /\ IsNonZeroNumber(x.feedId)}}
    ELSE IF data.type = "unsubscribe" /\ data.field.kind = "array"
    THEN S \ Elements(data.field.items)
    ELSE S

\* the entries of the connections other than h are as the handler found them
OthersUntouched(h) ==
    \A o \in Handles \ {h} :
        /\ MapHas(subscriptions, o) = MapHas(lastOp.pre, o)
        /\ MapHas(lastOp.pre, o) => MapGet(subscriptions, o) = MapGet(lastOp.pre, o)

(***************************************************************************)
(* C12: every request of a connection in the Map, no send throwing, leaves *)
(* its feed set as set algebra gives it and the entries of the other       *)
(* connections as they were; connects, closes and errors of a connection   *)
(* leave the entries of the others as they were; a publish changes no feed *)
(* set.  By induction the feed set after a sequence of requests is the     *)
(* set-algebra result, under every interleaving.  It fails for a subscribe *)
(* list holding null: the elements before the null are added, those after *)
(* it are not.                                                             *)
(***************************************************************************)
C12_FeedSetAlgebra ==
    /\ (/\ Handled("message")
        /\ MapHas(lastOp.pre, lastOp.ws)
        /\ \A i \in 1..Len(sent) : sent[i].ok) =>
           /\ FeedsOf(subscriptions, lastOp.ws)
                  = Applied(lastOp.data, FeedsOf(lastOp.pre, lastOp.ws))
           /\ OthersUntouched(lastOp.ws)
    /\ lastOp.op \in {"connection", "close", "error"} => OthersUntouched(lastOp.ws)
    /\ Handled("publish") =>
           \A h \in Handles :
               MapHas(subscriptions, h) =>
                   MapGet(subscriptions, h) = MapGet(lastOp.pre, h)

(***************************************************************************)
(* C13: a close or error of a connection removes its entry and nothing     *)
(* else, and sends nothing; when the connection has no entry any more      *)
(* (removed by an earlier error, close or failed send) the Map is left as  *)
(* it was.                                                                 *)
(***************************************************************************)
C13_UnregisterIdempotent ==
    lastOp.op \in {"close", "error"} =>
        LET Other(e) == e.ws # lastOp.ws
        IN  /\ subscriptions = SelectSeq(lastOp.pre, Other)
            /\ ~MapHas(lastOp.pre, lastOp.ws) => subscriptions = lastOp.pre
            /\ sent = <<>>

\* C13's case: a second removal, while another connection has an entry
C13_Witness ==
    /\ Handled("close")
    /\ ~MapHas(lastOp.pre, lastOp.ws)
    /\ lastOp.pre # <<>>
    /\ subscriptions = lastOp.pre

(***************************************************************************)
(* C14: a subscribe or unsubscribe request whose list field is missing or  *)
(* not a list, from a connection in the Map, leaves the Map as it was; its *)
(* send calls go to the requester and carry error messages only, the first *)
(* being the format error of the request; one call is made when it does    *)
(* not throw, and at most one error message is delivered.                  *)
(***************************************************************************)
C14_BadListIsOneError ==
    (/\ Handled("message")
     /\ lastOp.data.type \in {"subscribe", "unsubscribe"}
     /\ lastOp.data.field.kind # "array"
     /\ MapHas(lastOp.pre, lastOp.ws)) =>
        /\ subscriptions = lastOp.pre
        /\ Len(sent) >= 1
        /\ sent[1].msg = ErrorMsg(IF lastOp.data.type = "subscribe"
                                  THEN "Invalid subscription format"
                                  ELSE "Invalid unsubscription format")
        /\ \A i \in 1..Len(sent) :
               sent[i].to = lastOp.ws /\ sent[i].msg.type = "error"
        /\ sent[1].ok => Len(sent) = 1
        /\ Cardinality({i \in 1..Len(sent) : sent[i].ok}) <= 1

\* C14's case: a subscribed connection sends subscribe with a string for list
C14_Witness ==
    /\ Handled("message")
    /\ lastOp.data = Frame("subscribe", JsNotArray)
    /\ FeedsOf(lastOp.pre, lastOp.ws) # {}
    /\ sent = <<[to |-> lastOp.ws, msg |-> ErrorMsg("Invalid subscription format"),
                 ok |-> TRUE]>>

(***************************************************************************)
(* C15: a subscribe or unsubscribe request from a connection that has no   *)
(* entry in the Map changes neither the Map nor the prices nor the id      *)
(* counter, sends nothing, and lets no exception escape.                   *)
(***************************************************************************)
C15_Step ==
    (/\ lastOp'.op = "message"
     /\ lastOp'.data.type \in {"subscribe", "unsubscribe"}
     /\ ~MapHas(subscriptions, lastOp'.ws)) =>
        /\ UNCHANGED <<subscriptions, currentPrices, connectionId, crashed>>
        /\ sent' = <<>>

C15_UnknownHandleIsNoOp == [][C15_Step]_vars

\* C15's case: a subscribe from an open connection that a failed send pruned
C15_Witness ==
    /\ Handled("message")
    /\ lastOp.data = Frame("subscribe", JsArray(<<ObjEntry(Feed6)>>))
    /\ ~MapHas(lastOp.pre, lastOp.ws)
    /\ readyState[lastOp.ws] = "OPEN"
    /\ lastOp.pre # <<>>
    /\ subscriptions = lastOp.pre
    /\ sent = <<>>

(***************************************************************************)
(* C16: no handler ends with an exception escaping it.  It fails: the      *)
(* 'connected' send of line 84 and the error send in the catch of line 97  *)
(* are outside any try.                                                    *)
(***************************************************************************)
C16_NoExceptionEscapes == ~crashed

(***************************************************************************)
(* C17: in a publish and in the answer to a request, a connection whose    *)
(* send threw has no entry when the handler ends, is sent nothing more by  *)
(* the handler, and no error message goes to another connection.  It fails *)
(* in the answer to a request: the listener's catch sends the connection   *)
(* an error message and its entry stays.                                   *)
(***************************************************************************)
C17_FailedSendPrunes ==
    lastOp.op \in {"publish", "message"} =>
        \A i \in 1..Len(sent) :
            ~sent[i].ok =>
                /\ ~MapHas(subscriptions, sent[i].to)
                /\ \A j \in (i + 1)..Len(sent) : sent[j].to # sent[i].to
                /\ \A j \in 1..Len(sent) :
                       sent[j].msg.type = "error" => sent[j].to = sent[i].to

(***************************************************************************)
(* C18: the ids in the Map are distinct and none exceeds the counter; the  *)
(* counter never decreases; the connection handler always creates the      *)
(* entry of the new connection, with an empty feed set and the id one      *)
(* above the counter, hence above every id assigned before; the id of an   *)
(* entry does not change while the entry is in the Map; and nothing else   *)
(* creates an entry.                                                       *)
(***************************************************************************)
C18_Ids ==
    \A i, j \in 1..Len(subscriptions) :
        /\ subscriptions[i].id \in 1..connectionId
        /\ i # j => subscriptions[i].id # subscriptions[j].id

C18_Step ==
    /\ connectionId' >= connectionId
    /\ (lastOp = Idle /\ lastOp'.op = "connection") => MapHas(subscriptions', lastOp'.ws)
    /\ \A h \in Handles :
           /\ (MapHas(subscriptions, h) /\ MapHas(subscriptions', h)) =>
                  MapGet(subscriptions', h).id = MapGet(subscriptions, h).id
           /\ (~MapHas(subscriptions, h) /\ MapHas(subscriptions', h)) =>
                  /\ lastOp'.op = "connection"
                  /\ lastOp'.ws = h
                  /\ connectionId' = connectionId + 1
                  /\ MapGet(subscriptions', h)
                         = [ws |-> h, id |-> connectionId + 1, subscribedFeeds |-> {}]

C18_FreshIds == [](C18_Ids) /\ [][C18_Step]_vars

\* C18's case: a connection accepted after the first one has gone takes id 2
C18_Witness ==
    /\ Handled("connection")
    /\ lastOp.pre = <<>>
    /\ subscriptions = <<[ws |-> lastOp.ws, id |-> 2, subscribedFeeds |-> {}]>>
    /\ connectionId = 2

(***************************************************************************)
(* C19: every priceUpdate is sent to a connection whose feed set holds its *)
(* feed at the send: a publish sends to connections holding the feed when  *)
(* it starts; a snapshot goes to the requester of a subscribe, for a feed  *)
(* the request has just added; no other handler sends a priceUpdate.       *)
(***************************************************************************)
C19_OnlyToHolders ==
    \A i \in 1..Len(sent) :
        sent[i].msg.type = "priceUpdate" =>
            LET f == sent[i].msg.updates[1].feedId
            IN  \/ /\ Handled("publish")
                   /\ f = lastOp.feedId
                   /\ f \in FeedsOf(lastOp.pre, sent[i].to)
                \/ /\ Handled("message")
                   /\ lastOp.data.type = "subscribe"
                   /\ sent[i].to = lastOp.ws
                   /\ f \in FeedsOf(subscriptions, lastOp.ws)
                   /\ \E k \in 1..Len(lastOp.data.field.items) :
                          lastOp.data.field.items[k] = ObjEntry(f)

\* C19's case: a publish of feed 6 while an open connection holds feed 99 only
C19_Witness ==
    /\ Handled("publish")
    /\ \E h \in Handles :
           /\ readyState[h] = "OPEN"
           /\ FeedsOf(lastOp.pre, h) = {Feed99}
           /\ SendsTo(h) = {}

(***************************************************************************)
(* C20: every priceUpdate, broadcast or snapshot, carries the price stored *)
(* for its feed when the handler ends, which is the value of the most      *)
(* recent publish (the initial value before the first); the stored price   *)
(* changes only in a publish, which moves it to the next publish.  So the  *)
(* prices a connection receives for a feed never go back in publish order. *)
(***************************************************************************)
C20_CarriesCurrent ==
    \A i \in 1..Len(sent) :
        sent[i].msg.type = "priceUpdate" =>
            LET f == sent[i].msg.updates[1].feedId
            IN  /\ HasPrice(currentPrices, f)
                /\ sent[i].msg.pub = currentPrices[f.num].pub
                /\ DecimalCents(sent[i].msg.updates[1].price)
                       = currentPrices[f.num].cents

C20_Step ==
    currentPrices' # currentPrices =>
        /\ lastOp'.op = "publish"
        /\ DOMAIN currentPrices' = DOMAIN currentPrices
        /\ currentPrices'[SOL_FEED_ID].pub = currentPrices[SOL_FEED_ID].pub + 1

C20_NeverGoesBack == [](C20_CarriesCurrent) /\ [][C20_Step]_vars

\* C20's case: a connection that received the second publish asks again and
\* is sent a snapshot of the second publish
C20_Witness ==
    /\ Handled("message")
    /\ lastOp.ws \in heard
    /\ currentPrices[SOL_FEED_ID].pub = 2
    /\ \E i \in 1..Len(sent) :
           /\ sent[i].ok
           /\ sent[i].msg.type = "priceUpdate"
           /\ sent[i].msg.pub = 2

=============================================================================
